---- MODULE Spec2Model ----
(***************************************************************************)
(* A model of the message splitter plugin (src/main.py): the scope-aware   *)
(* and the legacy text splitters, the chain segmenter with its attachment  *)
(* strategies, the segment limiter, the delivery loop of                   *)
(* on_decorating_result and calculate_delay.                               *)
(*                                                                         *)
(* A text is a sequence of one-character strings.  A content unit is a     *)
(* record [kind, text, id]: kind "plain" with its text, or a media kind    *)
(* ("image", "at", ...) with the identity id of the component object.      *)
(***************************************************************************)
EXTENDS Integers, Sequences, FiniteSets, TLC

\* ------------------------------------------------------------------ bounds

\* Longest text of the single-text scans.
MaxTextLen == 4
\* Longest content sequence.
MaxChainLen == 3
\* The scan of a text is followed for at most this many loop iterations that
\* do not advance (an empty match appends a segment and stays in place).
MaxStall == 2

\* ------------------------------------------------------- characters, units

\* The characters texts are built from: an ordinary character, a sentence
\* terminator, a bracket pair and an ambiguous quote.
Alphabet == {"a", ".", "(", ")", "'"}

\* The texts of the Text units inside content sequences: the empty text, an
\* ordinary character, a delimiter, and a delimiter with text after it.
ChainTexts == {<<>>, <<"a">>, <<".">>, <<".", "a">>}

\* A text that opens a scope and does not close it.
OpenerTexts == {<<"(">>}

\* self.pair_map.  The four non-ASCII keys are written as named tokens.
pair_map ==
    [c \in {"LDQUO", "LBOOK", "LFPAR", "(", "[", "{", "\"", "'"} |->
        CASE c = "LDQUO" -> "RDQUO"
          [] c = "LBOOK" -> "RBOOK"
          [] c = "LFPAR" -> "RFPAR"
          [] c = "(" -> ")"
          [] c = "[" -> "]"
          [] c = "{" -> "}"
          [] c = "\"" -> "\""
          [] c = "'" -> "'"]

\* The ambiguous quotes of _process_text_smart: char in ['"', "'"].
AmbiguousQuotes == {"\"", "'"}

Plain(text) == [kind |-> "plain", text |-> text, id |-> 0]

Media(kind, id) == [kind |-> kind, text |-> <<>>, id |-> id]

isPlain(c) == c.kind = "plain"

RECURSIVE ConcatText(_)
\* The texts of the Plain units of a sequence of units, joined in order.
ConcatText(units) ==
    IF units = <<>> THEN <<>>
    ELSE (IF isPlain(Head(units)) THEN Head(units).text ELSE <<>>)
         \o ConcatText(Tail(units))

\* ---------------------------------------------------------------- patterns

(***************************************************************************)
(* A delimiter pattern is a regular expression over one character class:   *)
(*   [cls]   [cls]+   [cls]*   and the same with the class in a capture    *)
(*   group: ([cls])  ([cls])+  ([cls])*                                    *)
(* The simple mode builds "[chars]+"; split_regex is any expression the    *)
(* configuration gives.                                                    *)
(***************************************************************************)
Pat(cls, quant, group) == [cls |-> cls, quant |-> quant, group |-> group]

RECURSIVE RunLen(_, _, _)
\* The number of consecutive characters of cls in text from offset p (0-based).
RunLen(cls, text, p) ==
    IF p < Len(text) /\ text[p + 1] \in cls
    THEN 1 + RunLen(cls, text, p + 1)
    ELSE 0

\* compiled_pattern.match(text, pos=p): the length of the anchored match at
\* offset p, or -1 for None.  The quantifiers are greedy.
MatchLen(pat, text, p) ==
    LET r == RunLen(pat.cls, text, p)
    IN CASE pat.quant = "plus" -> IF r >= 1 THEN r ELSE -1
         [] pat.quant = "one" -> IF r >= 1 THEN 1 ELSE -1
         [] pat.quant = "star" -> r

\* re.fullmatch(pattern, part) is not None.
FullMatch(pat, part) ==
    /\ \A k \in 1..Len(part) : part[k] \in pat.cls
    /\ CASE pat.quant = "plus" -> Len(part) >= 1
         [] pat.quant = "one" -> Len(part) = 1
         [] pat.quant = "star" -> TRUE

\* What one match adds to the list re.split returns for "(" + pattern + ")":
\* the match, and the value of the pattern's own group when it has one (the
\* last character the group matched; None, written <<>>, when it matched
\* nothing).
MatchParts(pat, text, q, m) ==
    LET whole == SubSeq(text, q + 1, q + m)
    IN IF pat.group
       THEN <<whole, IF m > 0 THEN <<text[q + m]>> ELSE <<>>>>
       ELSE <<whole>>

RECURSIVE FindMatch(_, _, _, _)
\* The offset of the next match at or after q, or -1: the search of re.split,
\* where must says that an empty match at q itself is not accepted (the match
\* before it was empty and ended here).
FindMatch(pat, text, q, must) ==
    IF q > Len(text) THEN -1
    ELSE LET m == MatchLen(pat, text, q)
         IN IF m > 0 \/ (m = 0 /\ ~must)
            THEN q
            ELSE FindMatch(pat, text, q + 1, FALSE)

RECURSIVE ReSplitFrom(_, _, _, _, _)
\* re.split from offset p, with last the end of the previous match.
ReSplitFrom(pat, text, p, last, must) ==
    LET q == FindMatch(pat, text, p, must)
    IN IF q < 0
       THEN <<SubSeq(text, last + 1, Len(text))>>
       ELSE LET m == MatchLen(pat, text, q)
            IN <<SubSeq(text, last + 1, q)>> \o MatchParts(pat, text, q, m)
               \o ReSplitFrom(pat, text, q + m, q + m, m = 0)

\* re.split(f"({pattern})", text)
ReSplit(pat, text) == ReSplitFrom(pat, text, 0, 0, FALSE)

\* ------------------------------------------------------ _process_text_simple

\* One pass of the loop over parts, on the record [temp, segs, buf].
SimplePart(pat, st, part) ==
    IF part = <<>> THEN st
    ELSE IF FullMatch(pat, part)
    THEN LET temp_text == st.temp \o part
         IN [temp |-> <<>>,
             segs |-> Append(st.segs, Append(st.buf, Plain(temp_text))),
             buf |-> <<>>]
    ELSE [temp |-> part,
          segs |-> st.segs,
          buf |-> IF st.temp # <<>> THEN Append(st.buf, Plain(st.temp))
                  ELSE st.buf]

RECURSIVE SimpleLoop(_, _, _, _)
SimpleLoop(pat, st, parts, k) ==
    IF k > Len(parts) THEN st
    ELSE SimpleLoop(pat, SimplePart(pat, st, parts[k]), parts, k + 1)

\* _process_text_simple(text, pattern, segments, buffer): the segment list and
\* the buffer it leaves.
ProcessTextSimple(text, pat, segments, buffer) ==
    LET st == SimpleLoop(pat, [temp |-> <<>>, segs |-> segments, buf |-> buffer],
                         ReSplit(pat, text), 1)
    IN [segs |-> st.segs,
        buf |-> IF st.temp # <<>> THEN Append(st.buf, Plain(st.temp)) ELSE st.buf,
        hung |-> FALSE]

\* ------------------------------------------------------- _process_text_smart


\* The state of the scan: i is the offset (0-based) of the next character.
ScanInit(segments, buffer) ==
    [i |-> 0, stack |-> <<>>, chunk |-> <<>>, segs |-> segments, buf |-> buffer]

Top(stack) == stack[Len(stack)]

Pop(stack) == SubSeq(stack, 1, Len(stack) - 1)

\* The character is kept as content of the current chunk.
Consume(st, char, stack) ==
    [st EXCEPT !.i = st.i + 1, !.stack = stack, !.chunk = Append(st.chunk, char)]

\* The branch for the ambiguous quotes: closed by the same quote on top of
\* the stack, opened otherwise.
QuoteStep(st, char) ==
    IF st.stack # <<>> /\ Top(st.stack) = char
    THEN Consume(st, char, Pop(st.stack))
    ELSE Consume(st, char, Append(st.stack, char))

\* InScopeStep without "elif is_opener: stack.append(char)": an opener inside
\* a scope is not tracked.
InScopeStepNoNesting(st, char) ==
    IF char = pair_map[Top(st.stack)] THEN Consume(st, char, Pop(st.stack))
    ELSE Consume(st, char, st.stack)

\* The branch inside a scope.
InScopeStep(st, char) ==
    LET expected_closer == pair_map[Top(st.stack)]
    IN IF char = expected_closer THEN Consume(st, char, Pop(st.stack))
       ELSE IF char \in DOMAIN pair_map
       THEN Consume(st, char, Append(st.stack, char))
       ELSE Consume(st, char, st.stack)

\* The branch "if match:": the delimiter closes the chunk and the buffer
\* becomes a segment.
MatchStep(st, text, m) ==
    LET delimiter == SubSeq(text, st.i + 1, st.i + m)
        current_chunk == st.chunk \o delimiter
    IN [st EXCEPT !.i = st.i + m,
                  !.chunk = <<>>,
                  !.segs = Append(st.segs, Append(st.buf, Plain(current_chunk))),
                  !.buf = <<>>]

\* One iteration of "while i < n".
SmartStep(text, pat, st) ==
    LET char == text[st.i + 1]
    IN IF char \in AmbiguousQuotes THEN QuoteStep(st, char)
       ELSE IF st.stack # <<>> THEN InScopeStep(st, char)
       ELSE IF char \in DOMAIN pair_map
       THEN Consume(st, char, Append(st.stack, char))
       ELSE LET m == MatchLen(pat, text, st.i)
            IN IF m >= 0 THEN MatchStep(st, text, m)
               ELSE Consume(st, char, st.stack)

\* The code after the loop: the rest of the chunk goes to the buffer.
ScanFlush(st) ==
    IF st.chunk # <<>> THEN Append(st.buf, Plain(st.chunk)) ELSE st.buf

RECURSIVE SmartLoop(_, _, _)
\* The loop run to its end.  An iteration that leaves i where it was (an empty
\* match) leaves the stack empty and the position unchanged, so every later
\* iteration does the same: the loop never ends (hung).
SmartLoop(text, pat, st) ==
    IF st.i >= Len(text)
    THEN [segs |-> st.segs, buf |-> ScanFlush(st), hung |-> FALSE]
    ELSE LET nx == SmartStep(text, pat, st)
         IN IF nx.i = st.i
            THEN [segs |-> nx.segs, buf |-> nx.buf, hung |-> TRUE]
            ELSE SmartLoop(text, pat, nx)

RECURSIVE OpenScopes(_, _, _)
\* The scopes open after the characters of a text from offset i on, the stack
\* st being open before them.
OpenScopes(text, i, st) ==
    IF i >= Len(text) THEN st
    ELSE OpenScopes(text, i + 1,
            SmartStep(text, Pat({}, "plus", FALSE),
                      [ScanInit(<<>>, <<>>) EXCEPT !.i = i, !.stack = st]).stack)

\* ProcessTextSmart with a scope stack that outlives the call: the scan starts
\* with the scopes the texts waiting in the buffer left open.
ProcessTextSmartKeepScope(text, pat, segments, buffer) ==
    LET waiting == ConcatText(buffer)
    IN SmartLoop(text, pat,
                 [ScanInit(segments, buffer) EXCEPT
                    !.stack = OpenScopes(waiting, 0, <<>>)])

\* _process_text_smart(text, pattern, segments, buffer)
ProcessTextSmart(text, pat, segments, buffer) ==
    SmartLoop(text, pat, ScanInit(segments, buffer))

\* --------------------------------------------------------- split_chain_smart

\* The strategies of the configuration: "Standalone" is the option written
\* with the characters for "alone", "AttachToPrevious" the one for "follow the
\* previous text", "AttachToNext" the one for "follow the next segment" and
\* "Embed" the one for "embed".
Strategies == {"Standalone", "AttachToPrevious", "AttachToNext", "Embed"}

\* The strategy of a component, by the key its lower-cased type name holds.
StrategyFor(kind, strategies) ==
    CASE kind = "image" -> strategies.image
      [] kind = "at" -> strategies.at
      [] kind = "face" -> strategies.face
      [] kind = "reply" -> strategies.reply
      [] OTHER -> strategies.default

\* StandaloneStep without the flush of the buffer before the component: the
\* component joins what the buffer holds.
StandaloneStepNoFlush(st, component) ==
    [st EXCEPT !.segs = Append(st.segs, Append(st.buf, component)), !.buf = <<>>]

\* strategy == "Standalone": the buffer is flushed and the component is a
\* segment of its own.
StandaloneStep(st, component) ==
    LET flushed == IF st.buf # <<>> THEN Append(st.segs, st.buf) ELSE st.segs
    IN [st EXCEPT !.segs = Append(flushed, <<component>>), !.buf = <<>>]

\* AttachPrevStep taken for the strategy of the next segment: the component
\* always waits in the buffer.
AttachPrevStepAlwaysBuffer(st, component) ==
    [st EXCEPT !.buf = Append(st.buf, component)]

\* AttachPrevStep without its last branch: with no buffer and no segment before
\* it the component goes nowhere.
AttachPrevStepNoStart(st, component) ==
    IF st.buf # <<>>
    THEN [st EXCEPT !.buf = Append(st.buf, component)]
    ELSE IF st.segs # <<>>
    THEN [st EXCEPT !.segs[Len(st.segs)] = Append(st.segs[Len(st.segs)], component)]
    ELSE st

\* strategy == "AttachToPrevious"
AttachPrevStep(st, component) ==
    IF st.buf # <<>>
    THEN [st EXCEPT !.buf = Append(st.buf, component)]
    ELSE IF st.segs # <<>>
    THEN [st EXCEPT !.segs[Len(st.segs)] = Append(st.segs[Len(st.segs)], component)]
    ELSE [st EXCEPT !.buf = Append(st.buf, component)]

\* The other strategies: the component waits in the buffer.
AttachNextStep(st, component) ==
    [st EXCEPT !.buf = Append(st.buf, component)]

\* The branch of the loop for a component that is not Plain.
MediaStep(st, component, strategies) ==
    LET strategy == StrategyFor(component.kind, strategies)
    IN IF strategy = "Standalone" THEN StandaloneStep(st, component)
       ELSE IF strategy = "AttachToPrevious" THEN AttachPrevStep(st, component)
       ELSE AttachNextStep(st, component)

\* The branch of the loop for a Plain component.
TextStep(st, component, pat, smart_mode) ==
    IF component.text = <<>> THEN st
    ELSE IF ~smart_mode
    THEN ProcessTextSimple(component.text, pat, st.segs, st.buf)
    ELSE ProcessTextSmart(component.text, pat, st.segs, st.buf)

\* One pass of "for component in chain" on [segs, buf, hung].  A scan that
\* never ends is where the call stays.
ChainStep(st, component, pat, smart_mode, strategies) ==
    IF st.hung THEN st
    ELSE IF isPlain(component) THEN TextStep(st, component, pat, smart_mode)
    ELSE MediaStep(st, component, strategies)

RECURSIVE ChainLoop(_, _, _, _, _, _)
ChainLoop(st, chain, k, pat, smart_mode, strategies) ==
    IF k > Len(chain) THEN st
    ELSE ChainLoop(ChainStep(st, chain[k], pat, smart_mode, strategies),
                   chain, k + 1, pat, smart_mode, strategies)

\* The end of split_chain_smart: the rest of the buffer is the last segment,
\* and empty segments are dropped.
ChainFinish(st) ==
    LET segments == IF st.buf # <<>> THEN Append(st.segs, st.buf) ELSE st.segs
    IN SelectSeq(segments, LAMBDA seg : seg # <<>>)

\* split_chain_smart(chain, pattern, smart_mode, strategies): the segments it
\* returns, or hung when a scan never ends.
SplitChainSmart(chain, pat, smart_mode, strategies) ==
    LET st == ChainLoop([segs |-> <<>>, buf |-> <<>>, hung |-> FALSE],
                        chain, 1, pat, smart_mode, strategies)
    IN IF st.hung THEN [segs |-> <<>>, hung |-> TRUE]
       ELSE [segs |-> ChainFinish(st), hung |-> FALSE]

\* ------------------------------------------------------------ segment limit

RECURSIVE Flatten(_)
\* The units of a list of segments, in order (merged_last_segment.extend).
Flatten(segments) ==
    IF segments = <<>> THEN <<>>
    ELSE Head(segments) \o Flatten(Tail(segments))

\* LimitSegments with the slices taken at max_segs instead of max_segs - 1.
LimitSegmentsOffByOne(list, m) ==
    IF Len(list) > m /\ m > 0
    THEN Append(SubSeq(list, 1, m), Flatten(SubSeq(list, m + 1, Len(list))))
    ELSE list

\* Step 5 of on_decorating_result.
LimitSegments(list, m) ==
    IF Len(list) > m /\ m > 0
    THEN Append(SubSeq(list, 1, m - 1), Flatten(SubSeq(list, m, Len(list))))
    ELSE list

\* ------------------------------------------------------ on_decorating_result

\* re.sub(clean_pattern, "", text), for a clean_regex "[cls]".
CleanText(t, clean) == SelectSeq(t, LAMBDA c : c \notin clean.cls)

\* The cleanup of one segment: the Plain components with a text are rewritten.
CleanSegment(seg, clean) ==
    IF ~clean.on THEN seg
    ELSE [k \in 1..Len(seg) |->
            IF isPlain(seg[k]) /\ seg[k].text # <<>>
            THEN Plain(CleanText(seg[k].text, clean))
            ELSE seg[k]]

\* The loop without its test for empty content: every segment is sent.
NothingToSendNever(seg) == FALSE

\* The test "is_empty_text and not has_other_components".
NothingToSend(seg) ==
    /\ ConcatText(seg) = <<>>
    /\ ~(\E k \in 1..Len(seg) : ~isPlain(seg[k]))

RECURSIVE NextSend(_, _, _)
\* The loop over the segments from index i (0-based) up to its next send: the
\* segments it passes are cleaned, the empty ones are skipped.  The result is
\* the list as the loop leaves it and the index of the segment to send, or the
\* length of the list when the loop is over.
NextSend(segs, clean, i) ==
    IF i >= Len(segs) THEN [segs |-> segs, i |-> i]
    ELSE IF segs[i + 1] = <<>> THEN NextSend(segs, clean, i + 1)
    ELSE LET cleaned == [segs EXCEPT ![i + 1] = CleanSegment(segs[i + 1], clean)]
         IN IF NothingToSend(cleaned[i + 1])
            THEN NextSend(cleaned, clean, i + 1)
            ELSE [segs |-> cleaned, i |-> i]

\* The processed test reading a flag that is never set.
NeverProcessed(flag) == FALSE

\* getattr(event, "__splitter_processed", False)
AlreadyProcessed(flag) == flag

\* "if i < len(segments) - 1": a delay follows the send of segment i.
DelayFollows(i, n) == i < n - 1

\* The loop without its try statement: no error is caught.
CaughtNothing(exc) == FALSE

\* "except Exception": the errors the try statement of the loop catches.
\* asyncio.CancelledError is a BaseException and no Exception.
Caught(exc) == exc = "Exception"


\* ----------------------------------------------------------- calculate_delay

\* Durations are in thousandths of a second, and so are the factors.
\* math.log(n) in thousandths, for the lengths of the model.
LnMilli(n) ==
    CASE n = 1 -> 0
      [] n = 2 -> 693
      [] n = 3 -> 1099
      [] n = 4 -> 1386
      [] n = 5 -> 1609
      [] n = 6 -> 1792
      [] n = 7 -> 1946
      [] n = 8 -> 2079
      [] n = 9 -> 2197
      [] OTHER -> 2303

\* The cap the logarithmic branch is written with: 5.0.
LogCapMilli == 5000

Min(a, b) == IF a <= b THEN a ELSE b

\* The step between the values random.uniform is taken to return.
RandomStep == 500

\* random.uniform(mn, mx): some value between the two, whichever is larger.
Uniform(mn, mx) ==
    {d \in Min(mn, mx)..(mn + mx - Min(mn, mx)) :
        d \in {mn, mx} \/ (d - Min(mn, mx)) % RandomStep = 0}

\* calculate_delay(text) for a text of length L: the values it may return.
CalculateDelay(config, L) ==
    IF config.delay_strategy = "random"
    THEN Uniform(config.random_min, config.random_max)
    ELSE IF config.delay_strategy = "log"
    THEN {Min(config.log_base + (config.log_factor * LnMilli(L + 1)) \div 1000,
              LogCapMilli)}
    ELSE IF config.delay_strategy = "linear"
    THEN {config.linear_base + L * config.linear_factor}
    ELSE {config.fixed_delay}

\* ------------------------------------------------------------------- state

VARIABLES
    \* The scan of one text by _process_text_smart, followed step by step.
    text,        \* the text scanned
    pattern,     \* the delimiter pattern
    start,       \* [segs, buf]: the segment list and the buffer it starts from
    scan,        \* [i, stack, chunk, segs, buf]: the locals of the scan
    scan_pc,     \* "ready", "scan", "done"
    cuts,        \* history: the boundaries made, as [from, to, depth]
    stalls,      \* history: the iterations that did not advance
    legacy,      \* what _process_text_simple returns from the same start
    \* One call of split_chain_smart and the segment limit after it.
    chain,       \* the content sequence
    chain_pat,   \* the delimiter pattern
    smart_mode,  \* enable_smart_split
    strategies,  \* the strategy of each media kind
    split,       \* [segs, buf, hung]: segments and current_chain_buffer
    split_k,     \* the components consumed so far
    split_pc,    \* "loop", "returned", "hung", "limited"
    segments,    \* the list split_chain_smart returned
    max_segs,    \* max_segments
    limited,     \* the list after the segment limit
    \* The calls of on_decorating_result for one event.
    is_llm_reply,  \* the event's attribute __is_llm_reply
    processed,     \* the event's attribute __splitter_processed
    result_chain,  \* event.get_result().chain
    original,      \* history: the result chain the event came with
    cfg,           \* the configuration: [pat, smart, clean, max]
    pc,            \* of each call: "idle", "sending", "sleeping", "returned",
                   \* "raised", "hung"
    segs,          \* of each call: its local segments
    idx,           \* of each call: its loop index i
    passed,        \* history: the call got past the processed test
    started,       \* history: the call reached the delivery loop
    log,           \* history: the sends, their ends and the delays
    \* One call of calculate_delay.
    delay_cfg,     \* the delay options of the configuration
    delay_len,     \* len(text)
    delay_out,     \* the value returned
    delay_pc       \* "ready", "done"

scanVars == <<text, pattern, start, scan, scan_pc, cuts, stalls, legacy>>

chainVars == <<chain, chain_pat, smart_mode, strategies, split, split_k,
               split_pc, segments, max_segs, limited>>

handlerVars == <<is_llm_reply, processed, result_chain, original, cfg, pc,
                 segs, idx, passed, started, log>>

delayVars == <<delay_cfg, delay_len, delay_out, delay_pc>>

vars == <<scanVars, chainVars, handlerVars, delayVars>>

\* --------------------------------------------------------------- the inputs

RECURSIVE SeqsUpTo(_, _)
\* The sequences over S of length at most n.
SeqsUpTo(S, n) ==
    IF n = 0 THEN {<<>>}
    ELSE LET shorter == SeqsUpTo(S, n - 1)
         IN shorter \cup {Append(q, x) : q \in {r \in shorter : Len(r) = n - 1}, x \in S}

\* The patterns of the single-text scans: "[.]+", "[.]", "[.]*", "([.])+" and
\* "[.(]+", whose class holds an opener.
ScanPatterns ==
    {Pat({"."}, "plus", FALSE), Pat({"."}, "one", FALSE), Pat({"."}, "star", FALSE),
     Pat({"."}, "plus", TRUE), Pat({".", "("}, "plus", FALSE)}

\* The segment list and buffer a scan may start from: nothing yet, or a
\* finished segment and a component waiting in the buffer.
ScanStarts ==
    {[segs |-> <<>>, buf |-> <<>>],
     [segs |-> <<<<Media("image", 1)>>>>, buf |-> <<Media("at", 2)>>]}

\* The patterns of the content sequences: "[.]+", "[.]*" and "([.])+".
ChainPatterns ==
    {Pat({"."}, "plus", FALSE), Pat({"."}, "star", FALSE), Pat({"."}, "plus", TRUE)}

\* The media kinds of the content sequences.
ChainKinds == {"image", "at"}

\* The unit at place k of a content sequence.  The media components are told
\* apart by their place.
UnitAt(d, k) == IF isPlain(d) THEN d ELSE Media(d.kind, k)

\* The content sequences: Text and media units in every order, and the same
\* after a first Text unit that leaves a scope open.
Chains ==
    LET units == {Plain(t) : t \in ChainTexts}
                    \cup {Media(kind, 0) : kind \in ChainKinds}
        plain == SeqsUpTo(units, MaxChainLen)
        opened == {<<Plain(t)>> \o ds :
                      t \in OpenerTexts, ds \in SeqsUpTo(units, MaxChainLen - 1)}
    IN {[k \in 1..Len(ds) |-> UnitAt(ds[k], k)] : ds \in plain \cup opened}

\* The defaults of the strategy options.
DefaultStrategies ==
    [image |-> "Standalone", at |-> "AttachToNext", face |-> "Embed",
     reply |-> "Standalone", default |-> "AttachToNext"]

\* The configurations of the strategies: the kinds of the content sequences
\* take every strategy, the others keep their defaults.
StrategyMaps ==
    {[image |-> si, at |-> sa, face |-> "Embed", reply |-> "Standalone",
      default |-> "AttachToNext"] : si \in Strategies, sa \in Strategies}

\* The values of max_segments tried: unlimited (0 and below) up to MaxM.
MaxM == 3

NoScan ==
    /\ text = <<>>
    /\ pattern = Pat({}, "plus", FALSE)
    /\ start = [segs |-> <<>>, buf |-> <<>>]
    /\ scan = ScanInit(<<>>, <<>>)
    /\ scan_pc = "off"
    /\ cuts = <<>>
    /\ stalls = 0
    /\ legacy = [segs |-> <<>>, buf |-> <<>>, hung |-> FALSE]

NoChain ==
    /\ chain = <<>>
    /\ chain_pat = Pat({}, "plus", FALSE)
    /\ smart_mode = TRUE
    /\ strategies = DefaultStrategies
    /\ split = [segs |-> <<>>, buf |-> <<>>, hung |-> FALSE]
    /\ split_k = 0
    /\ split_pc = "off"
    /\ segments = <<>>
    /\ max_segs = 0
    /\ limited = <<>>

\* The calls of on_decorating_result that are made for the event.
NumCalls == 2

Calls == 1..NumCalls

\* Longest result chain of the event.
MaxResultLen == 2

\* The result chains of the event: texts, and images.
ResultChains ==
    {[k \in 1..Len(ds) |-> UnitAt(ds[k], k)] :
        ds \in SeqsUpTo({Plain(t) : t \in ChainTexts}
                        \cup {Media("image", 0)}, MaxResultLen)}

\* The configurations: split_regex "[.]+" or "[.]*", the smart mode on or
\* off, clean_regex "" or "[.]", max_segments 0 (no limit) or 2.
Configs ==
    {[pat |-> Pat({"."}, q, FALSE), smart |-> sm,
      clean |-> [on |-> c, cls |-> IF c THEN {"."} ELSE {}], max |-> m] :
        q \in {"plus", "star"}, sm \in BOOLEAN, c \in BOOLEAN, m \in {0, 2}}

NoHandler ==
    /\ is_llm_reply = FALSE
    /\ processed = FALSE
    /\ result_chain = <<>>
    /\ original = <<>>
    /\ cfg = [pat |-> Pat({}, "plus", FALSE), smart |-> TRUE,
              clean |-> [on |-> FALSE, cls |-> {}], max |-> 0]
    /\ pc = [t \in Calls |-> "off"]
    /\ segs = [t \in Calls |-> <<>>]
    /\ idx = [t \in Calls |-> 0]
    /\ passed = [t \in Calls |-> FALSE]
    /\ started = [t \in Calls |-> FALSE]
    /\ log = <<>>

\* The longest text calculate_delay is called with.
MaxDelayLen == 5

\* The defaults of the delay options, with the cap of the logarithmic
\* strategy as an option of its own.
DefaultDelay ==
    [delay_strategy |-> "linear", random_min |-> 1000, random_max |-> 3000,
     log_base |-> 500, log_factor |-> 800, log_cap |-> 5000,
     linear_base |-> 500, linear_factor |-> 100, fixed_delay |-> 1500]

\* The delay options tried: every strategy, "fixed" standing for any other
\* name, with bases, factors and caps around the values of the defaults.
DelayConfigs ==
    {[DefaultDelay EXCEPT !.delay_strategy = st, !.log_base = b,
                          !.log_factor = f, !.log_cap = c,
                          !.linear_base = b] :
        st \in {"random", "log", "linear", "fixed"}, b \in {500, 4500},
        f \in {800, 2000}, c \in {3000, 5000, 8000}}

NoDelay ==
    /\ delay_cfg = DefaultDelay
    /\ delay_len = 0
    /\ delay_out = 0
    /\ delay_pc = "off"

\* ------------------------------------------------- the scan, step by step

ScanSpecInit ==
    /\ text \in SeqsUpTo(Alphabet, MaxTextLen)
    /\ pattern \in ScanPatterns
    /\ start \in ScanStarts
    /\ scan = ScanInit(start.segs, start.buf)
    /\ scan_pc = "ready"
    /\ cuts = <<>>
    /\ stalls = 0
    /\ legacy = [segs |-> <<>>, buf |-> <<>>, hung |-> FALSE]
    /\ NoChain
    /\ NoHandler
    /\ NoDelay

\* The legacy splitter on the same text, from the same start.
RunLegacy ==
    /\ scan_pc = "ready"
    /\ legacy' = ProcessTextSimple(text, pattern, start.segs, start.buf)
    /\ scan_pc' = "scan"
    /\ UNCHANGED <<text, pattern, start, scan, cuts, stalls, chainVars, handlerVars, delayVars>>

\* One iteration of the loop of _process_text_smart.
ScanStep ==
    /\ scan_pc = "scan"
    /\ scan.i < Len(text)
    /\ stalls < MaxStall
    /\ LET nx == SmartStep(text, pattern, scan)
       IN /\ scan' = nx
          /\ cuts' = IF Len(nx.segs) > Len(scan.segs)
                     THEN Append(cuts, [from |-> scan.i, to |-> nx.i,
                                        depth |-> Len(scan.stack)])
                     ELSE cuts
          /\ stalls' = IF nx.i = scan.i THEN stalls + 1 ELSE stalls
    /\ UNCHANGED <<text, pattern, start, scan_pc, legacy, chainVars, handlerVars, delayVars>>

\* The end of the loop: the rest of the chunk goes to the buffer.
ScanEnd ==
    /\ scan_pc = "scan"
    /\ scan.i >= Len(text)
    /\ scan' = [scan EXCEPT !.buf = ScanFlush(scan), !.chunk = <<>>]
    /\ scan_pc' = "done"
    /\ UNCHANGED <<text, pattern, start, cuts, stalls, legacy, chainVars, handlerVars, delayVars>>

ScanNext == RunLegacy \/ ScanStep \/ ScanEnd

ScanSpec == ScanSpecInit /\ [][ScanNext]_vars

\* ------------------------------------- split_chain_smart and the limit

ChainSpecInit ==
    /\ chain \in Chains
    /\ chain_pat \in ChainPatterns
    /\ smart_mode \in BOOLEAN
    /\ strategies \in StrategyMaps
    /\ split = [segs |-> <<>>, buf |-> <<>>, hung |-> FALSE]
    /\ split_k = 0
    /\ split_pc = "loop"
    /\ segments = <<>>
    /\ max_segs = 0
    /\ limited = <<>>
    /\ NoScan
    /\ NoHandler
    /\ NoDelay

\* One pass of "for component in chain".
SplitComponent ==
    /\ split_pc = "loop"
    /\ split_k < Len(chain)
    /\ LET nx == ChainStep(split, chain[split_k + 1], chain_pat, smart_mode, strategies)
       IN /\ split' = nx
          /\ split_pc' = IF nx.hung THEN "hung" ELSE "loop"
    /\ split_k' = split_k + 1
    /\ UNCHANGED <<chain, chain_pat, smart_mode, strategies, segments, max_segs,
                   limited, scanVars, handlerVars, delayVars>>

\* The end of split_chain_smart.
SplitReturn ==
    /\ split_pc = "loop"
    /\ split_k = Len(chain)
    /\ segments' = ChainFinish(split)
    /\ split_pc' = "returned"
    /\ UNCHANGED <<chain, chain_pat, smart_mode, strategies, split, split_k,
                   max_segs, limited, scanVars, handlerVars, delayVars>>

\* The segment limit, for a value of max_segments.
Limit ==
    /\ split_pc = "returned"
    /\ \E m \in -1..MaxM :
        /\ max_segs' = m
        /\ limited' = LimitSegments(segments, m)
    /\ split_pc' = "limited"
    /\ UNCHANGED <<chain, chain_pat, smart_mode, strategies, split, split_k,
                   segments, scanVars, handlerVars, delayVars>>

ChainNext == SplitComponent \/ SplitReturn \/ Limit

ChainSpec == ChainSpecInit /\ [][ChainNext]_vars

\* ------------------------------------------- the calls of the two handlers

Init ==
    /\ is_llm_reply = FALSE
    /\ processed = FALSE
    /\ result_chain \in ResultChains
    /\ original = result_chain
    /\ cfg \in Configs
    /\ pc = [t \in Calls |-> "idle"]
    /\ segs = [t \in Calls |-> <<>>]
    /\ idx = [t \in Calls |-> 0]
    /\ passed = [t \in Calls |-> FALSE]
    /\ started = [t \in Calls |-> FALSE]
    /\ log = <<>>
    /\ NoScan
    /\ NoChain
    /\ NoDelay

Event(ev, t, i) == [ev |-> ev, call |-> t, i |-> i]

\* Return with the clearing of the original chain done on every way out of
\* the handler.
ReturnClearing(t) ==
    /\ pc' = [pc EXCEPT ![t] = "returned"]
    /\ result_chain' = <<>>
    /\ UNCHANGED <<segs, idx, started>>

\* The call t returns before the delivery loop.
Return(t) ==
    /\ pc' = [pc EXCEPT ![t] = "returned"]
    /\ UNCHANGED <<result_chain, segs, idx, started>>

\* The delivery loop of call t goes on at index from, with the list s and the
\* log lg: up to its next send, or to its end, where the original chain is
\* cleared and the call returns.
Advance(t, s, from, lg) ==
    LET n == NextSend(s, cfg.clean, from)
    IN /\ segs' = [segs EXCEPT ![t] = n.segs]
       /\ idx' = [idx EXCEPT ![t] = n.i]
       /\ IF n.i < Len(s)
          THEN /\ pc' = [pc EXCEPT ![t] = "sending"]
               /\ log' = Append(lg, Event("send", t, n.i))
               /\ result_chain' = result_chain
          ELSE /\ pc' = [pc EXCEPT ![t] = "returned"]
               /\ log' = lg
               /\ result_chain' = <<>>

\* on_llm_response marks the event.
LLMResponse ==
    /\ ~is_llm_reply
    /\ is_llm_reply' = TRUE
    /\ UNCHANGED <<processed, result_chain, cfg, original, pc, segs, idx, passed,
                   started, log, scanVars, chainVars, delayVars>>

\* A call of on_decorating_result, up to its first await: the checks, the
\* split, the limit, and the loop up to its first send.
Invoke(t) ==
    /\ pc[t] = "idle"
    /\ IF ~is_llm_reply
       THEN /\ Return(t)
            /\ UNCHANGED <<processed, passed, log>>
       ELSE IF AlreadyProcessed(processed)
       THEN /\ Return(t)
            /\ log' = Append(log, Event("suppressed", t, 0))
            /\ UNCHANGED <<processed, passed>>
       ELSE /\ processed' = TRUE
            /\ passed' = [passed EXCEPT ![t] = TRUE]
            /\ IF result_chain = <<>>
               THEN Return(t) /\ UNCHANGED log
               ELSE LET r == SplitChainSmart(result_chain, cfg.pat, cfg.smart,
                                             DefaultStrategies)
                        s == LimitSegments(r.segs, cfg.max)
                    IN IF r.hung
                       THEN /\ pc' = [pc EXCEPT ![t] = "hung"]
                            /\ UNCHANGED <<result_chain, segs, idx, started, log>>
                       ELSE IF Len(s) <= 1 /\ ~cfg.clean.on
                       THEN Return(t) /\ UNCHANGED log
                       ELSE /\ started' = [started EXCEPT ![t] = TRUE]
                            /\ Advance(t, s, 0, log)
    /\ UNCHANGED <<is_llm_reply, cfg, original, scanVars, chainVars, delayVars>>

\* send_message returns: the delay is computed and awaited when another
\* segment follows in the list, and the loop goes on otherwise.
SendDone(t) ==
    /\ pc[t] = "sending"
    /\ IF DelayFollows(idx[t], Len(segs[t]))
       THEN /\ pc' = [pc EXCEPT ![t] = "sleeping"]
            /\ log' = log \o <<Event("sent", t, idx[t]), Event("delay", t, idx[t])>>
            /\ UNCHANGED <<result_chain, segs, idx>>
       ELSE Advance(t, segs[t], idx[t] + 1, Append(log, Event("sent", t, idx[t])))
    /\ UNCHANGED <<is_llm_reply, processed, cfg, original, passed, started,
                   scanVars, chainVars, delayVars>>

\* An error is raised at the await of call t, inside the try statement: one
\* the except clause catches is logged and the loop goes on with the next
\* segment, any other leaves the handler.
Raise(t, exc, ev) ==
    IF Caught(exc)
    THEN Advance(t, segs[t], idx[t] + 1, Append(log, Event(ev, t, idx[t])))
    ELSE /\ pc' = [pc EXCEPT ![t] = "raised"]
         /\ log' = Append(log, Event(ev, t, idx[t]))
         /\ UNCHANGED <<result_chain, segs, idx>>

\* send_message raises an Exception.
SendFails(t) ==
    /\ pc[t] = "sending"
    /\ Raise(t, "Exception", "failed")
    /\ UNCHANGED <<is_llm_reply, processed, cfg, original, passed, started,
                   scanVars, chainVars, delayVars>>

\* asyncio.sleep returns.
SleepDone(t) ==
    /\ pc[t] = "sleeping"
    /\ Advance(t, segs[t], idx[t] + 1, Append(log, Event("woke", t, idx[t])))
    /\ UNCHANGED <<is_llm_reply, processed, cfg, original, passed, started,
                   scanVars, chainVars, delayVars>>

\* The task of the call is cancelled while it awaits the send or the sleep:
\* the await raises asyncio.CancelledError.
Cancel(t) ==
    /\ pc[t] \in {"sending", "sleeping"}
    /\ Raise(t, "CancelledError", "cancel")
    /\ UNCHANGED <<is_llm_reply, processed, cfg, original, passed, started,
                   scanVars, chainVars, delayVars>>

Next ==
    \/ LLMResponse
    \/ \E t \in Calls : Invoke(t)
    \/ \E t \in Calls : SendDone(t)
    \/ \E t \in Calls : SendFails(t)
    \/ \E t \in Calls : SleepDone(t)
    \/ \E t \in Calls : Cancel(t)

Spec == Init /\ [][Next]_vars

\* ------------------------------------------------- calculate_delay, called

DelaySpecInit ==
    /\ delay_cfg \in DelayConfigs
    /\ delay_len \in 0..MaxDelayLen
    /\ delay_out = 0
    /\ delay_pc = "ready"
    /\ NoScan
    /\ NoChain
    /\ NoHandler

\* The call of calculate_delay returns.
DelayReturn ==
    /\ delay_pc = "ready"
    /\ delay_out' \in CalculateDelay(delay_cfg, delay_len)
    /\ delay_pc' = "done"
    /\ UNCHANGED <<delay_cfg, delay_len, scanVars, chainVars, handlerVars>>

DelayNext == DelayReturn

DelaySpec == DelaySpecInit /\ [][DelayNext]_vars

\* ---------------------------------------------------- notions of the claims

RECURSIVE Normalize(_)
\* A sequence of units with its neighbouring Plain units joined into one and
\* its empty Plain units dropped: what is left is the media units, in order,
\* and the text between them.
Normalize(units) ==
    IF units = <<>> THEN <<>>
    ELSE LET rest == Normalize(Tail(units))
             u == Head(units)
         IN IF ~isPlain(u) THEN <<u>> \o rest
            ELSE IF u.text = <<>> THEN rest
            ELSE IF rest # <<>> /\ isPlain(Head(rest))
            THEN <<Plain(u.text \o Head(rest).text)>> \o Tail(rest)
            ELSE <<u>> \o rest

\* The scope markers: the openers of the pairing table, the ambiguous quotes
\* among them.
ScopeMarkers == DOMAIN pair_map

RECURSIVE RefStack(_, _)
\* The open scopes after the first n characters of a text, every character
\* read by the rules of the scope tracker: a quote closes the same quote on
\* top and opens otherwise; inside a scope the closer of the top closes it and
\* an opener nests; outside, an opener opens.
RefStack(t, n) ==
    IF n = 0 THEN <<>>
    ELSE LET before == RefStack(t, n - 1)
             c == t[n]
         IN IF c \in AmbiguousQuotes
            THEN IF before # <<>> /\ before[Len(before)] = c
                 THEN SubSeq(before, 1, Len(before) - 1)
                 ELSE Append(before, c)
            ELSE IF before # <<>> /\ c = pair_map[before[Len(before)]]
            THEN SubSeq(before, 1, Len(before) - 1)
            ELSE IF c \in ScopeMarkers THEN Append(before, c)
            ELSE before

\* No match of the pattern holds a scope marker.
MatchesNoMarker(pat) == pat.cls \cap ScopeMarkers = {}

NoScopeMarker(t) == \A k \in 1..Len(t) : t[k] \notin ScopeMarkers

RECURSIVE SumLen(_, _, _)
\* The number of units of the segments a..b of a list.
SumLen(list, a, b) == IF a > b THEN 0 ELSE Len(list[a]) + SumLen(list, a + 1, b)

Returned == split_pc \in {"returned", "limited"}

\* The units of the returned segments that are media with the strategy s.
HasStrategy(u, s) == ~isPlain(u) /\ StrategyFor(u.kind, strategies) = s

\* --------------------------------------------------------------- the claims

\* C1 (as stated): the texts of the Text units of the segments that
\* split_chain_smart returns, joined in order, are the texts of the input's
\* Text units joined in order, for every pattern and both modes.
RoundTrip == Returned => ConcatText(Flatten(segments)) = ConcatText(chain)

\* C2 (as stated): every boundary of the scope-aware scan is made where the
\* scope stack is empty, and no boundary lies between an opener of the text and
\* its closer, or after an opener that is never closed.
ScopeProtectionAnyPattern ==
    \A k \in 1..Len(cuts) :
        /\ cuts[k].depth = 0
        /\ RefStack(text, cuts[k].from) = <<>>
        /\ RefStack(text, cuts[k].to) = <<>>

\* C2 (amended): the same, for the patterns whose matches hold no scope marker.
ScopeProtection == MatchesNoMarker(pattern) => ScopeProtectionAnyPattern

\* C2's case: a delimiter inside a scope was passed over, and a boundary made
\* at a later one outside.
ScopeProtectionWitness ==
    /\ scan_pc = "done"
    /\ MatchesNoMarker(pattern)
    /\ Len(cuts) = 1
    /\ \E j \in 1..cuts[1].from :
        text[j] \in pattern.cls /\ RefStack(text, j - 1) # <<>>

\* C3 (as stated): on a text without scope markers the two splitters, from the
\* same start, end with the same segments and the same buffer.
ModeEquivalence ==
    (scan_pc = "done" /\ NoScopeMarker(text)) =>
        (scan.segs = legacy.segs /\ scan.buf = legacy.buf)

\* C4: with M > 0 and more than M segments the limited list has M segments, the
\* first M-1 unchanged and the last holding the units of all the others in
\* order; otherwise the list is unchanged; so it never has more than M
\* segments when M > 0.
SegmentCap ==
    split_pc = "limited" =>
        /\ IF max_segs > 0 /\ Len(segments) > max_segs
           THEN /\ Len(limited) = max_segs
                /\ \A k \in 1..(max_segs - 1) : limited[k] = segments[k]
                /\ Len(limited[max_segs]) = SumLen(segments, max_segs, Len(segments))
                /\ \A j \in max_segs..Len(segments) : \A u \in 1..Len(segments[j]) :
                      limited[max_segs][SumLen(segments, max_segs, j - 1) + u]
                          = segments[j][u]
           ELSE limited = segments
        /\ max_segs > 0 => Len(limited) <= max_segs

\* C4's case: four segments limited to two, the last three merged.
SegmentCapWitness ==
    split_pc = "limited" /\ max_segs = 2 /\ Len(segments) = 4

\* C5 (as stated): the segment of a Standalone media unit holds no other unit.
StandaloneAlone ==
    Returned =>
        \A s \in 1..Len(segments) : \A k \in 1..Len(segments[s]) :
            HasStrategy(segments[s][k], "Standalone") => Len(segments[s]) = 1

\* C5 (amended): a Standalone media unit is the first unit of its segment, and
\* the other units of that segment are AttachToPrevious media units that
\* follow it in the input with nothing between them but each other and empty
\* Text units.
StandaloneOwnSegment ==
    Returned =>
        \A s \in 1..Len(segments) : \A k \in 1..Len(segments[s]) :
            HasStrategy(segments[s][k], "Standalone") =>
                /\ k = 1
                /\ \A j \in 2..Len(segments[s]) :
                    /\ HasStrategy(segments[s][j], "AttachToPrevious")
                    /\ \A c \in (segments[s][1].id + 1)..segments[s][j].id :
                        \/ chain[c] = Plain(<<>>)
                        \/ HasStrategy(chain[c], "AttachToPrevious")

\* C5's case: a Standalone media unit between a text and an AttachToPrevious
\* media unit.
StandaloneWitness ==
    /\ split_pc = "returned"
    /\ Len(chain) = 3
    /\ isPlain(chain[1]) /\ chain[1].text # <<>>
    /\ HasStrategy(chain[2], "Standalone")
    /\ HasStrategy(chain[3], "AttachToPrevious")
    /\ segments[Len(segments)] = <<chain[2], chain[3]>>

\* C6 (as stated): the units of the returned segments, and of the limited
\* ones, are the input units in input order, each Text unit as its chunks:
\* the same media units in the same order with the same text between them.
OrderPreserved ==
    /\ Returned => Normalize(Flatten(segments)) = Normalize(chain)
    /\ split_pc = "limited" => Normalize(Flatten(limited)) = Normalize(chain)

\* The events of call t, in order.
LogOf(t) == SelectSeq(log, LAMBDA e : e.call = t)

\* The number of events ev of a log.
Count(lg, ev) == Cardinality({k \in 1..Len(lg) : lg[k].ev = ev})

\* A segment with something to deliver: a media unit, or some text.
Deliverable(seg) ==
    \E k \in 1..Len(seg) : ~isPlain(seg[k]) \/ seg[k].text # <<>>

\* C7: of the calls of on_decorating_result for one event at most one gets
\* past the processed test and starts a delivery; the others return and send
\* nothing.
IdempotencyGuard ==
    /\ Cardinality({t \in Calls : passed[t]}) <= 1
    /\ Cardinality({t \in Calls : started[t]}) <= 1
    /\ \A t \in Calls : ~passed[t] =>
        /\ pc[t] \in {"idle", "returned"}
        /\ \A k \in 1..Len(log) : log[k].call = t => log[k].ev = "suppressed"

\* C7's case: a second call comes while the first awaits its send, and
\* returns at the processed test.
IdempotencyWitness ==
    \E t, u \in Calls :
        /\ pc[t] = "sending" /\ started[t]
        /\ pc[u] = "returned" /\ ~passed[u]
        /\ \E k \in 1..Len(log) : log[k] = Event("suppressed", u, 0)

\* C8 (as stated): in a delivery the sends are issued in increasing segment
\* index, no send is issued while another is in flight, and between two
\* sends the first has ended and the delay after it has been awaited.
SequentialDelivery ==
    \A t \in Calls :
        LET lg == LogOf(t)
        IN \A k \in 1..Len(lg) : \A j \in (k + 1)..Len(lg) :
            (lg[k].ev = "send" /\ lg[j].ev = "send") =>
                /\ lg[k].i < lg[j].i
                /\ \E a \in (k + 1)..(j - 1) :
                    lg[a].ev \in {"sent", "failed"} /\ lg[a].i = lg[k].i
                /\ \E a \in (k + 1)..(j - 1), b \in (k + 1)..(j - 1) :
                    /\ a < b
                    /\ lg[a] = Event("delay", t, lg[k].i)
                    /\ lg[b] = Event("woke", t, lg[k].i)

\* C9 (as stated): when a delivery is over, every delay was followed by a
\* send, and with no failed send the delays are one fewer than the sends.
NoTrailingDelay ==
    \A t \in Calls : (pc[t] = "returned" /\ started[t]) =>
        LET lg == LogOf(t)
        IN /\ \A k \in 1..Len(lg) : lg[k].ev = "delay" =>
                \E j \in (k + 1)..Len(lg) : lg[j].ev = "send"
           /\ (Count(lg, "failed") = 0 /\ Count(lg, "sent") > 0) =>
                Count(lg, "delay") = Count(lg, "sent") - 1

\* C10: a failed send does not end the delivery: no call leaves the handler by
\* the error of a failed send, and when the delivery is over every segment
\* after the failed one that has something to deliver was sent, in order.
SendFailureContinues ==
    \A t \in Calls :
        LET lg == LogOf(t)
        IN /\ pc[t] = "raised" => lg[Len(lg)].ev # "failed"
           /\ (pc[t] = "returned" /\ started[t]) =>
                \A k \in 1..Len(lg) : lg[k].ev = "failed" =>
                    /\ \A j \in (lg[k].i + 1)..(Len(segs[t]) - 1) :
                        Deliverable(segs[t][j + 1]) =>
                            \E a \in (k + 1)..Len(lg) : lg[a] = Event("send", t, j)
                    /\ \A a \in (k + 1)..Len(lg) : \A b \in (a + 1)..Len(lg) :
                        (lg[a].ev = "send" /\ lg[b].ev = "send") => lg[a].i < lg[b].i

\* C10's case: the first send failed, a later one succeeded and the call
\* returned.
SendFailureWitness ==
    \E t \in Calls :
        /\ pc[t] = "returned"
        /\ \E k \in 1..Len(log) : \E j \in (k + 1)..Len(log) :
            /\ log[k] = Event("failed", t, 0)
            /\ log[j].ev = "sent" /\ log[j].call = t /\ log[j].i > 0

\* C11 (as stated): when the send of a segment fails and a later segment is
\* sent, the delay of the failed segment is computed and awaited between the
\* failure and that send.
DelayAfterFailure ==
    \A t \in Calls :
        LET lg == LogOf(t)
        IN \A k \in 1..Len(lg) : \A j \in (k + 1)..Len(lg) :
            (lg[k].ev = "failed" /\ lg[j].ev = "send") =>
                \E a \in (k + 1)..(j - 1), b \in (k + 1)..(j - 1) :
                    /\ a < b
                    /\ lg[a] = Event("delay", t, lg[k].i)
                    /\ lg[b] = Event("woke", t, lg[k].i)

\* A character of the delimiter set D at place p (1-based) of a text, outside
\* any scope: the scope rules leave no scope open before it.
Eligible(t, D, p) == t[p] \in D /\ RefStack(t, p - 1) = <<>>

\* The places p..q of a text are a maximal run of delimiter characters that
\* are outside any scope.
MaximalRun(t, D, p, q) ==
    /\ \A j \in p..q : Eligible(t, D, j)
    /\ p = 1 \/ ~Eligible(t, D, p - 1)
    /\ q = Len(t) \/ ~Eligible(t, D, q + 1)

RECURSIVE RunChunks(_, _, _, _)
\* A text cut after each of its maximal runs of characters of D: the chunks
\* from the offset from on, with p the offset looked at.
RunChunks(t, D, from, p) ==
    IF p >= Len(t)
    THEN IF from < Len(t) THEN <<SubSeq(t, from + 1, Len(t))>> ELSE <<>>
    ELSE LET r == RunLen(D, t, p)
         IN IF r > 0
            THEN <<SubSeq(t, from + 1, p + r)>> \o RunChunks(t, D, p + r, p + r)
            ELSE RunChunks(t, D, from, p + 1)

\* The chunks a splitter made of a text, from the segments and the buffer b it
\* started with to those it ended with, r: the text of the last unit of each
\* segment it added, and the texts it left in the buffer.
ChunksFrom(b, r) ==
    LET added == Len(r.segs) - Len(b.segs)
        kept == IF added = 0 THEN Len(b.buf) ELSE 0
    IN [k \in 1..added |->
            r.segs[Len(b.segs) + k][Len(r.segs[Len(b.segs) + k])].text]
       \o [k \in 1..(Len(r.buf) - kept) |-> r.buf[kept + k].text]

\* The chunks a splitter made of the text of the single-text scans.
ProducedChunks(r) == ChunksFrom(start, r)

\* C12 (as stated): with a pattern "one or more characters of D", every
\* maximal run of delimiter characters outside any scope makes exactly one
\* boundary, the whole run ends the segment it closes, and the chunk after the
\* boundary does not begin with a character of D; in the legacy mode, which
\* knows no scope, the chunks are the text cut after each maximal run.
DelimiterRunsCollapse ==
    pattern.quant = "plus" =>
        /\ scan_pc = "done" =>
            \A p \in 1..Len(text) : \A q \in p..Len(text) :
                MaximalRun(text, pattern.cls, p, q) =>
                    /\ Cardinality({k \in 1..Len(cuts) :
                            cuts[k].from >= p - 1 /\ cuts[k].from < q}) = 1
                    /\ \E k \in 1..Len(cuts) :
                            cuts[k].from = p - 1 /\ cuts[k].to = q
                    /\ q < Len(text) => text[q + 1] \notin pattern.cls
        /\ scan_pc \in {"scan", "done"} =>
            ProducedChunks(legacy) = RunChunks(text, pattern.cls, 0, 0)

\* The unit at place k is the first unit of the sequence that is not an empty
\* Text unit.
FirstNonEmpty(k) ==
    /\ k \in 1..Len(chain)
    /\ chain[k] # Plain(<<>>)
    /\ \A j \in 1..(k - 1) : chain[j] = Plain(<<>>)

\* C13: an AttachToPrevious media unit that opens the content sequence (no
\* segment before it, the buffer empty) is the first unit of the first segment
\* split_chain_smart returns, whatever follows it.
AttachPrevAtStart ==
    Returned =>
        \A k \in 1..Len(chain) :
            (FirstNonEmpty(k) /\ HasStrategy(chain[k], "AttachToPrevious")) =>
                /\ segments # <<>>
                /\ segments[1][1] = chain[k]

\* C13's case: the sequence opens with an AttachToPrevious media unit, a text
\* with a delimiter follows it and closes the first segment, and more segments
\* follow.
AttachPrevAtStartWitness ==
    /\ split_pc = "returned"
    /\ Len(chain) = 3
    /\ HasStrategy(chain[1], "AttachToPrevious")
    /\ isPlain(chain[2])
    /\ Len(segments) >= 2
    /\ Len(segments[1]) = 2
    /\ segments[1][1] = chain[1]

\* The "send" events of the log.
Sends == {k \in 1..Len(log) : log[k].ev = "send"}

\* C14: split_chain_smart returns no empty segment for the chain the event
\* comes with, whatever the strategies; every send of the delivery loop is for
\* a segment that, after the cleanup, holds a media unit or some text; and an
\* empty content sequence gives no segment and no send.
NoEmptyDelivery ==
    /\ (is_llm_reply /\ ~processed) =>
         \A st \in StrategyMaps :
            LET r == SplitChainSmart(original, cfg.pat, cfg.smart, st)
            IN /\ ~r.hung => \A s \in 1..Len(r.segs) : r.segs[s] # <<>>
               /\ original = <<>> => (~r.hung /\ r.segs = <<>>)
    /\ \A k \in Sends : Deliverable(segs[log[k].call][log[k].i + 1])
    /\ original = <<>> => Sends = {}

\* C14's case: the cleanup emptied the first segment, the loop passed it
\* without a send and sends the second.
NoEmptyDeliveryWitness ==
    \E t \in Calls :
        /\ pc[t] = "sending"
        /\ idx[t] = 1
        /\ cfg.clean.on
        /\ segs[t][1] # <<>>
        /\ ~Deliverable(segs[t][1])
        /\ \A k \in Sends : log[k].i # 0

\* C15 (as stated): under the logarithmic strategy the delay returned is
\* min(base + factor * ln(L + 1), cap) for the configured cap, and so never
\* more than that cap.
LogDelayCap ==
    (delay_pc = "done" /\ delay_cfg.delay_strategy = "log") =>
        /\ delay_out =
              Min(delay_cfg.log_base
                    + (delay_cfg.log_factor * LnMilli(delay_len + 1)) \div 1000,
                  delay_cfg.log_cap)
        /\ delay_out <= delay_cfg.log_cap

\* The segments and the buffer of a scan of one text on its own.
Alone(t) == ProcessTextSmart(t, chain_pat, <<>>, <<>>)

\* C16: in the scope-aware mode every pass of split_chain_smart over a Text
\* unit cuts the unit's text into the chunks the scan of that text alone
\* makes, whatever the units before it left in the segments and the buffer: a
\* scope left open by an earlier unit is not open in a later one.
ScopePerTextUnit ==
    [][(/\ split_pc = "loop"
        /\ split_k < Len(chain)
        /\ split_k' = split_k + 1
        /\ smart_mode
        /\ isPlain(chain[split_k + 1])
        /\ ~split'.hung)
       => ChunksFrom(split, split')
            = ChunksFrom([segs |-> <<>>, buf |-> <<>>], Alone(chain[split_k + 1].text))]_vars

\* C16's case: the first Text unit opens a scope and never closes it, and the
\* delimiter of the second Text unit closes a segment that holds both.
ScopePerTextUnitWitness ==
    /\ split_pc = "returned"
    /\ smart_mode
    /\ Len(chain) = 2
    /\ chain[1] = Plain(<<"(">>)
    /\ chain[2] = Plain(<<".", "a">>)
    /\ segments = <<<<Plain(<<"(">>), Plain(<<".">>)>>, <<Plain(<<"a">>)>>>>

\* C17 (as stated): after the task of a delivery was cancelled at a pending
\* send or delay, no later segment of that delivery is sent, and the call does
\* not end with an error raised from the handler.
CancellationContained ==
    \A t \in Calls :
        LET lg == LogOf(t)
        IN /\ \A k \in 1..Len(lg) : lg[k].ev = "cancel" =>
                \A j \in (k + 1)..Len(lg) : lg[j].ev # "send"
           /\ pc[t] # "raised"

\* C18 (as stated): every iteration of the loop of the scope-aware scan moves
\* the scan position forward by at least one character, whatever the pattern:
\* no iteration has left the position where it was.
ScanAdvances == stalls = 0

\* The place of the last unit before place c that is not an empty Text unit,
\* or 0.
PrecedingUnit(c) ==
    LET before == {j \in 1..(c - 1) : chain[j] # Plain(<<>>)}
    IN IF before = {} THEN 0 ELSE CHOOSE j \in before : \A i \in before : i <= j

\* The unit piece is the last piece of the input unit u: u itself for a media
\* unit, and for a Text unit a chunk that ends its text.
LastPieceOf(piece, u) ==
    IF ~isPlain(u) THEN piece = u
    ELSE /\ isPlain(piece)
         /\ piece.text # <<>>
         /\ Len(piece.text) <= Len(u.text)
         /\ piece.text = SubSeq(u.text, Len(u.text) - Len(piece.text) + 1, Len(u.text))

\* C19: in the list split_chain_smart returns, every AttachToPrevious media
\* unit that has a non-empty unit before it in the sequence stands, in its
\* segment, directly after the last piece of the unit before it, whatever that
\* unit's kind and strategy.
AttachPrevPlacement ==
    Returned =>
        \A c \in 1..Len(chain) :
            (HasStrategy(chain[c], "AttachToPrevious") /\ PrecedingUnit(c) > 0) =>
                \E s \in 1..Len(segments) : \E k \in 2..Len(segments[s]) :
                    /\ segments[s][k] = chain[c]
                    /\ LastPieceOf(segments[s][k - 1], chain[PrecedingUnit(c)])

\* C19's case: the text before the media unit ends with a delimiter, so that
\* its segment was complete when the media unit was added to it.
AttachPrevPlacementWitness ==
    /\ split_pc = "returned"
    /\ Len(chain) = 3
    /\ chain[1] = Plain(<<".">>)
    /\ HasStrategy(chain[2], "AttachToPrevious")
    /\ HasStrategy(chain[3], "Standalone")
    /\ segments = <<<<chain[1], chain[2]>>, <<chain[3]>>>>

\* C20: a call of on_decorating_result that returns before the delivery loop
\* (the event is no LLM reply or is already processed, the chain is empty, or
\* at most one segment and no cleanup pattern) issues no send and leaves the
\* result chain as it was; the chain changes only when a call that runs the
\* delivery loop ends, and is then cleared.
EarlyReturnUntouched ==
    [][/\ \A t \in Calls :
            (pc[t] = "idle" /\ pc'[t] = "returned" /\ ~started'[t]) =>
                /\ result_chain' = result_chain
                /\ Count(log', "send") = Count(log, "send")
       /\ result_chain' # result_chain =>
            /\ result_chain' = <<>>
            /\ \E t \in Calls :
                    started'[t] /\ pc[t] # "returned" /\ pc'[t] = "returned"]_vars

\* C20's case: the event is an LLM reply with a chain that makes one segment,
\* no cleanup pattern is configured, and the call has returned with the chain
\* as it came and nothing sent.
EarlyReturnWitness ==
    \E t \in Calls :
        /\ pc[t] = "returned"
        /\ passed[t]
        /\ ~started[t]
        /\ ~cfg.clean.on
        /\ original # <<>>
        /\ result_chain = original
        /\ log = <<>>

====
